---- MODULE Spec2Model ----
(***************************************************************************)
(* Rally race settlement (src/streamlit_app.py, "Start race!" handler) on  *)
(* top of the persistence helpers of src/snowflake_utils.py.               *)
(*                                                                         *)
(* The store (CORE.TEAMS, CORE.CARS, OPS.RACES, OPS.TRANSACTIONS,          *)
(* OPS.RACE_RESULTS) is shared by the application sessions.  Every call of *)
(* execute() is one SQL statement and one step of the model; a statement   *)
(* may raise, which ends the script run of that session.  Everything the   *)
(* handler computes between two statements is part of the step that        *)
(* follows the earlier statement.                                          *)
(*                                                                         *)
(* Money is counted in thousands of USD, times in whole minutes.           *)
(***************************************************************************)
EXTENDS Integers, Sequences, FiniteSets

\* ---------------------------------------------------------------- bounds
\* Largest number of rows of CORE.CARS.
MaxCars == 4

\* Largest roster when two sessions run side by side.
MaxCarsTwo == 1

\* Application sessions that share the store.
Sessions == {1, 2}

\* TEAM_ID of the rows of CORE.TEAMS (the two seeded teams).
Teams == {1, 2}

\* BUDGET the teams were created with (upsert_team), by TEAM_ID.
StartingBudget == <<10, 8>>

\* Values of the number inputs of the race form.
Distances == {12}
EntryFees == {0, 1}
PrizeTables == {<<5, 3, 1>>, <<0, 3, 0>>}

\* Minutes simulate_time_minutes may return.
Times == {3, 5}

\* Python's None (a SQL NULL when bound as a parameter).
None == 0

\* ----------------------------------------------------------------- state
VARIABLES
    cars,             \* CORE.CARS joined with CORE.TEAMS, in the query's order
    budget,           \* CORE.TEAMS.BUDGET by TEAM_ID
    races,            \* RACE_ID of the rows of OPS.RACES
    transactions,     \* rows of OPS.TRANSACTIONS, in insertion order
    race_results,     \* rows of OPS.RACE_RESULTS, in insertion order
    pc,               \* position of each session's script run
    distance_km,      \* the form's inputs, per session
    entry_fee,
    prizes,
    cars_df,          \* per session: the roster read at line 208
    race_id,          \* per session: what create_race returned
    participating_team_ids,
    idx,              \* per session: index of the running loop (1-based)
    results,          \* per session: the list of result dicts
    finishers,        \* per session: indices into results, in ranking order
    all_dnf,          \* per session: value of the condition of line 240
    fallback,         \* per session: the draw of line 244, None if not drawn
    inserted_id       \* per session: RACE_ID of the row its INSERT created

dbvars == <<cars, budget, races, transactions, race_results>>
inputvars == <<distance_km, entry_fee, prizes, cars_df>>
simvars == <<results, finishers, all_dnf, fallback>>
vars == <<cars, budget, races, transactions, race_results, pc, distance_km,
          entry_fee, prizes, cars_df, race_id, participating_team_ids, idx,
          results, finishers, all_dnf, fallback, inserted_id>>

\* ------------------------------------------------------------- helpers
Min2(a, b) == IF a <= b THEN a ELSE b

SetMax(S) == CHOOSE x \in S : \A y \in S : y <= x

SetMin(S) == CHOOSE x \in S : \A y \in S : x <= y

RECURSIVE SortedList(_)
\* sorted(list(S)) for a set of integers
SortedList(S) ==
    IF S = {} THEN <<>>
    ELSE <<SetMin(S)>> \o SortedList(S \ {SetMin(S)})

\* Results of get_cars_with_teams_df the store can give: CAR_ID is the
\* autoincrement 1..n of the n inserted cars, any team may own any car, and
\* the order is by team and car name, which the user types.  The model
\* takes the orders in which the names sort against the order of insertion,
\* so that a CAR_ID is not the car's place in the roster.
Rosters ==
    UNION { { df \in [1..n -> [CAR_ID : 1..n, TEAM_ID : Teams]] :
                \A i, j \in 1..n : i < j => df[i].CAR_ID > df[j].CAR_ID }
            : n \in 0..MaxCars }

\* Variant of RosterEmpty: the guard never sees an empty roster.
RosterEmptyNever(df) == FALSE

\* cars_df.empty
RosterEmpty(df) == Len(df) = 0

\* Variant of ParticipatingTeamIds: one entry per car, teams not deduplicated.
ParticipatingTeamIdsPerCar(df) == [i \in 1..Len(df) |-> df[i].TEAM_ID]

\* sorted(list({int(tid) for tid in cars_df["TEAM_ID"].tolist()}))
ParticipatingTeamIds(df) ==
    SortedList({ df[i].TEAM_ID : i \in 1..Len(df) })

\* Outcomes of simulate_time_minutes: (minutes, dnf); both are random draws.
SimulateTimeMinutes == Times \X BOOLEAN

\* random.uniform(distance_km/3, distance_km/2), in whole minutes
FallbackTimes(d) == { t \in 1..d : 3 * t >= d /\ 2 * t <= d }

\* Variant of MakeResult: the simulated time is kept for a DNF car.
MakeResultKeepTime(row, mins, dnf) ==
    [CAR_ID |-> row.CAR_ID, TEAM_ID |-> row.TEAM_ID, TIME_MIN |-> mins,
     DNF |-> dnf, POSITION |-> 0]

\* The dict appended to results for one roster row (POSITION is not set yet).
MakeResult(row, mins, dnf) ==
    [CAR_ID |-> row.CAR_ID, TEAM_ID |-> row.TEAM_ID,
     TIME_MIN |-> IF ~dnf THEN mins ELSE None,
     DNF |-> dnf, POSITION |-> None]

\* results after the loop over cars_df, sim[i] being the simulator's pair
MakeResults(df, sim) ==
    [i \in 1..Len(df) |-> MakeResult(df[i], sim[i][1], sim[i][2])]

\* all(r["DNF"] for r in results)
AllDnf(rs) == \A i \in 1..Len(rs) : rs[i].DNF

\* key(i) < key(j) for key = results[i]["TIME_MIN"] or float("inf")
KeyLess(a, b) ==
    /\ a.TIME_MIN # None
    /\ (b.TIME_MIN = None \/ a.TIME_MIN < b.TIME_MIN)

\* min(range(len(results)), key=...): the first index of a smallest key
BestIdx(rs) ==
    CHOOSE i \in 1..Len(rs) :
        /\ \A j \in 1..Len(rs) : ~KeyLess(rs[j], rs[i])
        /\ \A j \in 1..(i - 1) : KeyLess(rs[i], rs[j])

\* Variant of Rescue: no rescue.
RescueNothing(rs, fb) == rs

\* The all-DNF rescue; fb is the fallback draw, used when the time is None.
Rescue(rs, fb) ==
    IF AllDnf(rs)
    THEN [rs EXCEPT ![BestIdx(rs)] =
             [@ EXCEPT !.DNF = FALSE,
                       !.TIME_MIN = IF @ = None THEN fb ELSE @]]
    ELSE rs

\* TRUE when the rescue draws the fallback time
DrawsFallback(rs) == AllDnf(rs) /\ rs[BestIdx(rs)].TIME_MIN = None

\* [r for r in results if not r["DNF"]], as indices into results
NonDnf(rs) == SelectSeq([i \in 1..Len(rs) |-> i], LAMBDA i : ~rs[i].DNF)

RECURSIVE InsertByTime(_, _, _)
\* one step of the stable sort: i goes behind every index whose time is <=
InsertByTime(sorted, i, rs) ==
    IF sorted = <<>> THEN <<i>>
    ELSE IF rs[Head(sorted)].TIME_MIN <= rs[i].TIME_MIN
         THEN <<Head(sorted)>> \o InsertByTime(Tail(sorted), i, rs)
         ELSE <<i>> \o sorted

RECURSIVE SortByTime(_, _)
\* finishers.sort(key=lambda r: r["TIME_MIN"]): stable, ascending
SortByTime(is, rs) ==
    IF is = <<>> THEN <<>>
    ELSE InsertByTime(SortByTime(SubSeq(is, 1, Len(is) - 1), rs), is[Len(is)], rs)

\* Variant of Finishers: the finishers are left in roster order.
FinishersUnsorted(rs) == SelectSeq([i \in 1..Len(rs) |-> i], LAMBDA i : ~rs[i].DNF)

\* finishers after lines 247-248
Finishers(rs) == SortByTime(NonDnf(rs), rs)

\* Variant of AssignPositions: every result is numbered, in roster order.
AssignPositionsAll(rs, fin) == [i \in 1..Len(rs) |-> [rs[i] EXCEPT !.POSITION = i]]

\* results after lines 249-253: POSITION is the 1-based place in finishers
AssignPositions(rs, fin) ==
    [i \in 1..Len(rs) |->
        IF \E p \in 1..Len(fin) : fin[p] = i
        THEN [rs[i] EXCEPT !.POSITION = CHOOSE p \in 1..Len(fin) : fin[p] = i]
        ELSE [rs[i] EXCEPT !.POSITION = None]]

\* f"Entry fee for {race_name}"
EntryFeeReason == "Entry fee"

\* f"Prize for position {idx+1} in {race_name}", k = idx+1
PrizeReason(k) == <<"Prize for position 1", "Prize for position 2",
                    "Prize for position 3">>[k]

\* range(min(3, len(finishers))), as the 1-based ranks it visits
PrizeRanks(fin) == 1..Min2(3, Len(fin))

\* Variant of PrizeTeam: the team of the k-th car of the roster.
PrizeTeamByRoster(rs, fin, df, k) == df[k].TEAM_ID

\* finishers[idx]["TEAM_ID"], k = idx+1
PrizeTeam(rs, fin, df, k) == rs[fin[k]].TEAM_ID

\* if amount > 0
PrizePaid(amount) == amount > 0

\* The parameters of insert_race_result for one result dict.
ResultRow(rid, r, s) ==
    [RACE_ID |-> rid, CAR_ID |-> r.CAR_ID, TEAM_ID |-> r.TEAM_ID,
     FINISH_TIME_MINUTES |-> IF r.TIME_MIN # None THEN r.TIME_MIN ELSE None,
     STATUS |-> IF ~r.DNF THEN "FINISHED" ELSE "DNF",
     POSITION |-> IF r.POSITION # None THEN r.POSITION ELSE None,
     run |-> s]

\* The row record_transaction inserts; run names the session that wrote it.
TransactionRow(team, rid, amount, reason, s) ==
    [TEAM_ID |-> team, RACE_ID |-> rid, AMOUNT |-> amount, REASON |-> reason,
     run |-> s]

\* RACE_ID the store gives the next row of OPS.RACES (autoincrement).
NextRaceId == IF races = {} THEN 1 ELSE SetMax(races) + 1

\* SELECT MAX(RACE_ID) FROM OPS.RACES; 0 when the table is empty
MaxRaceId == IF races = {} THEN 0 ELSE SetMax(races)

\* ------------------------------------------------------------------ Init
Init ==
    /\ cars \in Rosters
    /\ budget = [t \in Teams |-> StartingBudget[t]]
    /\ races = {}
    /\ transactions = <<>>
    /\ race_results = <<>>
    /\ pc = [s \in Sessions |-> "idle"]
    /\ distance_km = [s \in Sessions |-> None]
    /\ entry_fee = [s \in Sessions |-> None]
    /\ prizes = [s \in Sessions |-> <<>>]
    /\ cars_df = [s \in Sessions |-> <<>>]
    /\ race_id = [s \in Sessions |-> None]
    /\ participating_team_ids = [s \in Sessions |-> <<>>]
    /\ idx = [s \in Sessions |-> None]
    /\ results = [s \in Sessions |-> <<>>]
    /\ finishers = [s \in Sessions |-> <<>>]
    /\ all_dnf = [s \in Sessions |-> FALSE]
    /\ fallback = [s \in Sessions |-> None]
    /\ inserted_id = [s \in Sessions |-> None]

\* --------------------------------------------------------------- actions
\* The button is pressed: the form's inputs are read, the roster is
\* fetched, and an empty roster stops the run.
StartRace(s) ==
    /\ pc[s] = "idle"
    /\ \E d \in Distances, fee \in EntryFees, pz \in PrizeTables :
        /\ distance_km' = [distance_km EXCEPT ![s] = d]
        /\ entry_fee' = [entry_fee EXCEPT ![s] = fee]
        /\ prizes' = [prizes EXCEPT ![s] = pz]
    /\ cars_df' = [cars_df EXCEPT ![s] = cars]
    /\ pc' = [pc EXCEPT ![s] =
                IF RosterEmpty(cars) THEN "stopped" ELSE "create_race_insert"]
    /\ UNCHANGED <<dbvars, race_id, participating_team_ids, idx, simvars,
                   inserted_id>>

\* create_race, first statement: INSERT INTO OPS.RACES
CreateRaceInsert(s) ==
    /\ pc[s] = "create_race_insert"
    /\ races' = races \cup {NextRaceId}
    /\ inserted_id' = [inserted_id EXCEPT ![s] = NextRaceId]
    /\ pc' = [pc EXCEPT ![s] = "create_race_select"]
    /\ UNCHANGED <<cars, budget, transactions, race_results, inputvars,
                   race_id, participating_team_ids, idx, simvars>>

\* create_race, second statement: SELECT MAX(RACE_ID); then line 215
CreateRaceSelect(s) ==
    /\ pc[s] = "create_race_select"
    /\ race_id' = [race_id EXCEPT ![s] = MaxRaceId]
    /\ participating_team_ids' =
           [participating_team_ids EXCEPT ![s] = ParticipatingTeamIds(cars_df[s])]
    /\ idx' = [idx EXCEPT ![s] = 1]
    /\ pc' = [pc EXCEPT ![s] =
                IF ParticipatingTeamIds(cars_df[s]) # <<>>
                THEN "entry_fee_insert" ELSE "simulate"]
    /\ UNCHANGED <<dbvars, inputvars, simvars, inserted_id>>

\* record_transaction for an entry fee, first statement: INSERT
EntryFeeInsert(s) ==
    /\ pc[s] = "entry_fee_insert"
    /\ transactions' = Append(transactions,
           TransactionRow(participating_team_ids[s][idx[s]], race_id[s],
                          -entry_fee[s], EntryFeeReason, s))
    /\ pc' = [pc EXCEPT ![s] = "entry_fee_update"]
    /\ UNCHANGED <<cars, budget, races, race_results, inputvars, race_id,
                   participating_team_ids, idx, simvars, inserted_id>>

\* record_transaction for an entry fee, second statement: UPDATE CORE.TEAMS
EntryFeeUpdate(s) ==
    /\ pc[s] = "entry_fee_update"
    /\ budget' = [budget EXCEPT ![participating_team_ids[s][idx[s]]] =
                     @ + (-entry_fee[s])]
    /\ idx' = [idx EXCEPT ![s] = @ + 1]
    /\ pc' = [pc EXCEPT ![s] =
                IF idx[s] + 1 <= Len(participating_team_ids[s])
                THEN "entry_fee_insert" ELSE "simulate"]
    /\ UNCHANGED <<cars, races, transactions, race_results, inputvars,
                   race_id, participating_team_ids, simvars, inserted_id>>

\* Lines 219-256: every car is simulated, the all-DNF rescue and the
\* ranking are applied; nothing is written to the store.
SimulateAndRank(s) ==
    /\ pc[s] = "simulate"
    /\ \E sim \in [1..Len(cars_df[s]) -> SimulateTimeMinutes],
          fb \in FallbackTimes(distance_km[s]) :
        LET raw == MakeResults(cars_df[s], sim)
            rescued == Rescue(raw, fb)
            fin == Finishers(rescued)
        IN  /\ all_dnf' = [all_dnf EXCEPT ![s] = AllDnf(raw)]
            /\ fallback' = [fallback EXCEPT ![s] =
                               IF DrawsFallback(raw) THEN fb ELSE None]
            /\ finishers' = [finishers EXCEPT ![s] = fin]
            /\ results' = [results EXCEPT ![s] = AssignPositions(rescued, fin)]
            /\ pc' = [pc EXCEPT ![s] =
                        IF PrizeRanks(fin) # {} THEN "prize" ELSE "insert_race_result"]
    /\ idx' = [idx EXCEPT ![s] = 1]
    /\ UNCHANGED <<dbvars, inputvars, race_id, participating_team_ids,
                   inserted_id>>

\* Where the run is once the prize loop has moved on to rank k.
AfterPrize(s, k) ==
    IF k \in PrizeRanks(finishers[s]) THEN "prize" ELSE "insert_race_result"

\* The loop index then: the prize loop goes on at k, the loop over results
\* starts at its first element.
AfterPrizeIdx(s, k) == IF k \in PrizeRanks(finishers[s]) THEN k ELSE 1

\* The prize loop at a rank whose prize is not > 0: nothing is recorded.
PrizeSkip(s) ==
    /\ pc[s] = "prize"
    /\ ~PrizePaid(prizes[s][idx[s]])
    /\ idx' = [idx EXCEPT ![s] = AfterPrizeIdx(s, idx[s] + 1)]
    /\ pc' = [pc EXCEPT ![s] = AfterPrize(s, idx[s] + 1)]
    /\ UNCHANGED <<dbvars, inputvars, race_id, participating_team_ids,
                   simvars, inserted_id>>

\* record_transaction for a prize, first statement: INSERT
PrizeInsert(s) ==
    /\ pc[s] = "prize"
    /\ PrizePaid(prizes[s][idx[s]])
    /\ transactions' = Append(transactions,
           TransactionRow(PrizeTeam(results[s], finishers[s], cars_df[s], idx[s]),
                          race_id[s], prizes[s][idx[s]], PrizeReason(idx[s]), s))
    /\ pc' = [pc EXCEPT ![s] = "prize_update"]
    /\ UNCHANGED <<cars, budget, races, race_results, inputvars, race_id,
                   participating_team_ids, idx, simvars, inserted_id>>

\* record_transaction for a prize, second statement: UPDATE CORE.TEAMS
PrizeUpdate(s) ==
    /\ pc[s] = "prize_update"
    /\ budget' = [budget EXCEPT
                     ![PrizeTeam(results[s], finishers[s], cars_df[s], idx[s])] =
                         @ + prizes[s][idx[s]]]
    /\ idx' = [idx EXCEPT ![s] = AfterPrizeIdx(s, idx[s] + 1)]
    /\ pc' = [pc EXCEPT ![s] = AfterPrize(s, idx[s] + 1)]
    /\ UNCHANGED <<cars, races, transactions, race_results, inputvars,
                   race_id, participating_team_ids, simvars, inserted_id>>

\* One pass of the loop of lines 263-272: INSERT INTO OPS.RACE_RESULTS
InsertRaceResult(s) ==
    /\ pc[s] = "insert_race_result"
    /\ idx[s] <= Len(results[s])
    /\ race_results' = Append(race_results,
                              ResultRow(race_id[s], results[s][idx[s]], s))
    /\ idx' = [idx EXCEPT ![s] = @ + 1]
    /\ pc' = [pc EXCEPT ![s] =
                IF idx[s] + 1 <= Len(results[s]) THEN "insert_race_result" ELSE "done"]
    /\ UNCHANGED <<cars, budget, races, transactions, inputvars, race_id,
                   participating_team_ids, simvars, inserted_id>>

\* Positions at which the next thing the run does is a SQL statement.
AtStatement(s) ==
    \/ pc[s] \in {"create_race_insert", "create_race_select", "entry_fee_insert",
                  "entry_fee_update", "prize_update", "insert_race_result"}
    \/ pc[s] = "prize" /\ PrizePaid(prizes[s][idx[s]])

\* The statement the run is about to execute raises: cursor.execute throws,
\* nothing catches it, and the script run ends where it is.
PersistenceFailure(s) ==
    /\ AtStatement(s)
    /\ pc' = [pc EXCEPT ![s] = "aborted"]
    /\ UNCHANGED <<dbvars, inputvars, race_id, participating_team_ids, idx,
                   simvars, inserted_id>>

Settle(s) ==
    \/ StartRace(s)
    \/ CreateRaceInsert(s)
    \/ CreateRaceSelect(s)
    \/ EntryFeeInsert(s)
    \/ EntryFeeUpdate(s)
    \/ SimulateAndRank(s)
    \/ PrizeSkip(s)
    \/ PrizeInsert(s)
    \/ PrizeUpdate(s)
    \/ InsertRaceResult(s)
    \/ PersistenceFailure(s)

\* One session settles one race.
Next == Settle(1)

Spec == Init /\ [][Next]_vars

\* Two sessions on the same store, each settling one race; the statements
\* of the two runs interleave in any order.  The roster is kept short.
InitTwo == Init /\ Len(cars) <= MaxCarsTwo

NextTwo == \E s \in Sessions : Settle(s)

SpecTwo == InitTwo /\ [][NextTwo]_vars

\* ---------------------------------------------------------------- claims
RECURSIVE SumAmount(_)
SumAmount(txs) == IF txs = <<>> THEN 0 ELSE Head(txs).AMOUNT + SumAmount(Tail(txs))

RECURSIVE SumSeq(_)
SumSeq(q) == IF q = <<>> THEN 0 ELSE Head(q) + SumSeq(Tail(q))

\* What session s wrote.
FeesOf(s) ==
    SelectSeq(transactions, LAMBDA t : t.run = s /\ t.REASON = EntryFeeReason)
PrizesOf(s) ==
    SelectSeq(transactions, LAMBDA t : t.run = s /\ t.REASON # EntryFeeReason)
RowsOf(s) == SelectSeq(race_results, LAMBDA r : r.run = s)
LedgerOf(t) == SelectSeq(transactions, LAMBDA x : x.TEAM_ID = t)

RosterTeams(s) == { cars_df[s][i].TEAM_ID : i \in 1..Len(cars_df[s]) }
FinisherCount(s) == Cardinality({ i \in 1..Len(results[s]) : ~results[s][i].DNF })

\* Positions of a run.
FeesCollected(s) ==
    pc[s] \in {"simulate", "prize", "prize_update", "insert_race_result", "done"}
Ranked(s) == pc[s] \in {"prize", "prize_update", "insert_race_result", "done"}
PrizesDistributed(s) == pc[s] \in {"insert_race_result", "done"}
Settled(s) == pc[s] = "done"

\* C1: once a run has collected the entry fees of a non-empty roster, it has
\* written exactly one debit of -entry_fee for every team that owns a car of
\* the roster and none for any other team, so the total debited is entry_fee
\* times the number of distinct teams, however many cars a team entered.
C1_EntryFeeOncePerTeam ==
    \A s \in Sessions : FeesCollected(s) =>
        /\ \A t \in Teams :
              Len(SelectSeq(FeesOf(s), LAMBDA x : x.TEAM_ID = t))
                  = IF t \in RosterTeams(s) THEN 1 ELSE 0
        /\ \A i \in 1..Len(FeesOf(s)) : FeesOf(s)[i].AMOUNT = -entry_fee[s]
        /\ SumAmount(FeesOf(s)) = -(entry_fee[s] * Cardinality(RosterTeams(s)))

C1_Witness ==
    /\ Settled(1)
    /\ entry_fee[1] > 0
    /\ Len(cars_df[1]) = 3
    /\ Cardinality(RosterTeams(1)) = 2

\* C2: when the simulator marked every car of the roster DNF, the results
\* hold exactly one car that is not DNF and N-1 that are, the persisted rows
\* of the settled race hold exactly one FINISHED and N-1 DNF; and every
\* settled race has at least one FINISHED row.
C2_AllDnfYieldsOneFinisher ==
    \A s \in Sessions :
        /\ (Ranked(s) /\ all_dnf[s]) =>
              /\ FinisherCount(s) = 1
              /\ Len(results[s]) = Len(cars_df[s])
        /\ (Settled(s) /\ all_dnf[s]) =>
              /\ Len(SelectSeq(RowsOf(s), LAMBDA r : r.STATUS = "FINISHED")) = 1
              /\ Len(SelectSeq(RowsOf(s), LAMBDA r : r.STATUS = "DNF"))
                     = Len(cars_df[s]) - 1
        /\ Settled(s) => \E i \in 1..Len(RowsOf(s)) : RowsOf(s)[i].STATUS = "FINISHED"

C2_Witness ==
    /\ Settled(1)
    /\ all_dnf[1]
    /\ Len(cars_df[1]) >= 3

\* C3: in a ranked race the positions of the cars that are not DNF are
\* exactly 1..finisherCount, no two finishers share a position, and of two
\* finishers the one with the smaller position has a time <= the other's;
\* the rows persisted for a settled race say the same.
C3_PositionsContiguousAndOrdered ==
    \A s \in Sessions :
        /\ Ranked(s) =>
              LET rs == results[s]
                  F == { i \in 1..Len(rs) : ~rs[i].DNF }
              IN  /\ { rs[i].POSITION : i \in F } = 1..Cardinality(F)
                  /\ \A i, j \in F :
                        /\ i # j => rs[i].POSITION # rs[j].POSITION
                        /\ rs[i].POSITION < rs[j].POSITION
                               => rs[i].TIME_MIN <= rs[j].TIME_MIN
        /\ Settled(s) =>
              LET rows == RowsOf(s)
                  F == { i \in 1..Len(rows) : rows[i].STATUS # "DNF" }
              IN  /\ { rows[i].POSITION : i \in F } = 1..Cardinality(F)
                  /\ \A i, j \in F :
                        /\ i # j => rows[i].POSITION # rows[j].POSITION
                        /\ rows[i].POSITION < rows[j].POSITION
                               => rows[i].FINISH_TIME_MINUTES
                                      <= rows[j].FINISH_TIME_MINUTES

C3_Witness ==
    /\ Settled(1)
    /\ FinisherCount(1) >= 3
    /\ \E i, j \in 1..Len(results[1]) :
          /\ i < j
          /\ ~results[1][i].DNF /\ ~results[1][j].DNF
          /\ results[1][j].TIME_MIN < results[1][i].TIME_MIN
    /\ \E i, j \in 1..Len(results[1]) :
          /\ i < j
          /\ ~results[1][i].DNF /\ ~results[1][j].DNF
          /\ results[1][j].TIME_MIN = results[1][i].TIME_MIN

\* C4: once the prizes of a race are distributed, a prize credit exists for
\* rank r exactly when 1 <= r <= min(3, finisherCount) and the prize of rank
\* r is > 0; it goes to the team of the car at position r and is that prize;
\* so the credits sum to those prizes and there are never more than 3.
C4_PrizeCredits ==
    \A s \in Sessions : PrizesDistributed(s) =>
        /\ \A r \in 1..3 :
              LET hits == SelectSeq(PrizesOf(s), LAMBDA x : x.REASON = PrizeReason(r))
              IN  IF r <= Min2(3, FinisherCount(s)) /\ prizes[s][r] > 0
                  THEN /\ Len(hits) = 1
                       /\ hits[1].AMOUNT = prizes[s][r]
                       /\ \E i \in 1..Len(results[s]) :
                             /\ results[s][i].POSITION = r
                             /\ results[s][i].TEAM_ID = hits[1].TEAM_ID
                  ELSE Len(hits) = 0
        /\ Len(PrizesOf(s)) <= 3
        /\ SumAmount(PrizesOf(s))
               = SumSeq([r \in 1..Min2(3, FinisherCount(s)) |-> prizes[s][r]])

C4_Witness ==
    /\ Settled(1)
    /\ FinisherCount(1) = 4
    /\ prizes[1][1] = 0 /\ prizes[1][2] > 0
    /\ Len(PrizesOf(1)) = 1
    /\ PrizesOf(1)[1].TEAM_ID # cars_df[1][2].TEAM_ID

\* C5: a settled race has exactly one persisted row per car of the roster,
\* and in every persisted row the status is FINISHED iff the time is not
\* null iff the position is not null.
C5_OneRowPerVehicle ==
    /\ \A s \in Sessions : Settled(s) =>
          /\ Len(RowsOf(s)) = Len(cars_df[s])
          /\ \A i \in 1..Len(cars_df[s]) :
                /\ RowsOf(s)[i].CAR_ID = cars_df[s][i].CAR_ID
                /\ RowsOf(s)[i].TEAM_ID = cars_df[s][i].TEAM_ID
    /\ \A i \in 1..Len(race_results) :
          LET r == race_results[i]
          IN  /\ r.STATUS \in {"FINISHED", "DNF"}
              /\ (r.STATUS = "FINISHED") <=> (r.FINISH_TIME_MINUTES # None)
              /\ (r.FINISH_TIME_MINUTES # None) <=> (r.POSITION # None)

C5_Witness ==
    /\ Settled(1)
    /\ Len(cars_df[1]) >= 3
    /\ \E i \in 1..Len(RowsOf(1)) : RowsOf(1)[i].STATUS = "DNF"
    /\ \E i \in 1..Len(RowsOf(1)) : RowsOf(1)[i].STATUS = "FINISHED"

\* C6: when a persistence call of a run has failed, no entry-fee or prize
\* transaction of that run is in the ledger or applied to a budget unless
\* the race-result rows of the race were persisted too.
C6_AbortLeavesNoPartialRace ==
    \A s \in Sessions : pc[s] = "aborted" =>
        (Len(FeesOf(s)) + Len(PrizesOf(s)) > 0
            => Len(RowsOf(s)) = Len(cars_df[s]))

\* C7: whenever no record_transaction is between its two statements, every
\* team's stored budget is its starting budget plus the sum of the amounts
\* of the ledger transactions recorded for the team, also after a failure.
C7_BudgetMatchesLedger ==
    (\A s \in Sessions : pc[s] \notin {"entry_fee_update", "prize_update"}) =>
        \A t \in Teams : budget[t] = StartingBudget[t] + SumAmount(LedgerOf(t))

\* C8: a run that found the roster empty stopped before anything was
\* written: no race record, no transaction, no budget change, no result row.
C8_EmptyRosterWritesNothing ==
    \A s \in Sessions : (pc[s] # "idle" /\ cars_df[s] = <<>>) =>
        /\ pc[s] = "stopped"
        /\ inserted_id[s] = None
        /\ races = {}
        /\ transactions = <<>>
        /\ race_results = <<>>
        /\ budget = [t \in Teams |-> StartingBudget[t]]

C8_Witness == pc[1] = "stopped" /\ cars_df[1] = <<>> /\ cars = <<>>

\* C9: every transaction and every race-result row a run writes carries the
\* identifier of the race record that the same run inserted.
C9_RowsCarryOwnRaceId ==
    /\ \A i \in 1..Len(transactions) :
          transactions[i].RACE_ID = inserted_id[transactions[i].run]
    /\ \A i \in 1..Len(race_results) :
          race_results[i].RACE_ID = inserted_id[race_results[i].run]

\* C10: when the simulator marked every car DNF, the car forced to FINISHED
\* is the first of the roster, whatever times the simulator computed, and
\* its time, in the results and in the persisted row, is the fallback draw
\* from [distance/3, distance/2], not a time the simulator returned.
C10_RescuedIsFirstWithFallbackTime ==
    \A s \in Sessions : (Ranked(s) /\ all_dnf[s]) =>
        /\ ~results[s][1].DNF
        /\ \A i \in 2..Len(results[s]) : results[s][i].DNF
        /\ fallback[s] # None
        /\ results[s][1].TIME_MIN = fallback[s]
        /\ 3 * fallback[s] >= distance_km[s]
        /\ 2 * fallback[s] <= distance_km[s]
        /\ Settled(s) =>
              /\ RowsOf(s)[1].CAR_ID = cars_df[s][1].CAR_ID
              /\ RowsOf(s)[1].STATUS = "FINISHED"
              /\ RowsOf(s)[1].FINISH_TIME_MINUTES = fallback[s]

C10_Witness ==
    /\ Settled(1)
    /\ all_dnf[1]
    /\ Len(cars_df[1]) >= 2
    /\ fallback[1] \notin Times
    /\ RowsOf(1)[1].FINISH_TIME_MINUTES = fallback[1]
====
